---------------------------- MODULE Spec2Model ----------------------------
(***************************************************************************)
(* prime_bag: a multiset of elements stored as the product of the primes   *)
(* assigned to its elements, in one nonzero unsigned integer of BITS bits. *)
(* The model follows the 8-bit instantiation (Helpers8 / PrimeBag8 /       *)
(* PrimeBagIter8 / PrimeBagGroupIter8) of the macros in src/src.           *)
(***************************************************************************)
EXTENDS Integers, Sequences, FiniteSets, TLC

(* ------------------------------ constants ------------------------------ *)

\* width of the backing integer (u8 / NonZeroU8)
BITS == 8

\* number of table primes in the default configuration
NUM_PRIMES == 32

\* number of table primes of the 8-bit width under the primes256 feature
NUM_PRIMES_8_256 == 54

\* number of table primes of the wider widths under the primes256 feature
NUM_PRIMES_256 == 256

\* largest raw value handed to the 16-bit from_inner
MaxRaw16 == 300

\* largest element index below the table's last two that inputs are drawn from
MaxIndex == 3

\* longest input sequence handed to try_from_iter
MaxLen == 4

\* largest count handed to try_insert_many and contains_at_least
MaxCount == 3

\* longest sequence handed to try_extend on a bag that already holds elements
MaxExtend == 2

\* <$ux>::MAX
MAX == 2^BITS - 1

\* <$nonzero_ux>::MIN, Helpers::ONE
ONE == 1

(* ------------------------------- Option -------------------------------- *)

None == [some |-> FALSE, val |-> 0]

Some(v) == [some |-> TRUE, val |-> v]

(* ------------------------ integer primitives --------------------------- *)

\* NonZero::saturating_add(1)
saturating_add(x, y) == IF x + y > MAX THEN MAX ELSE x + y

\* NonZero::checked_mul: None when the product does not fit the width
checked_mul(x, y) == IF x * y > MAX THEN None ELSE Some(x * y)

RECURSIVE trailing_zeros(_)
\* number of trailing zero bits of a nonzero value
trailing_zeros(x) == IF x % 2 = 1 THEN 0 ELSE 1 + trailing_zeros(x \div 2)

\* x >> n
shr(x, n) == x \div (2^n)

(* ----------------------------- prime table ----------------------------- *)

\* an inner loop that tries the first prime found only
factor_found_first(arr, current) ==
    Len(arr) > 0 /\ current % arr[1] = 0

\* the inner while loop of the sieve: some prime found so far divides current
factor_found(arr, current) ==
    \E sieve_index \in 1..Len(arr) : current % arr[sieve_index] = 0

\* the candidate the sieve stores next: the first one from current on that no
\* prime found so far divides, every candidate before it being passed over
\* (there is none when the candidates saturate at MAX first: the loop of the
\* source then never ends)
next_stored(arr, current) ==
    CHOOSE c \in current..MAX :
        /\ ~factor_found(arr, c)
        /\ \A d \in current..(c - 1) : factor_found(arr, d)

RECURSIVE sieve(_, _)
\* the trial-division loop that fills PRIMES, from one stored prime to the
\* next: arr holds the primes found so far, current is the candidate
sieve(arr, current) ==
    IF Len(arr) >= NUM_PRIMES THEN arr
    ELSE LET found == next_stored(arr, current)
         IN  sieve(Append(arr, found), saturating_add(found, 1))

\* the table, index i of the source at position i + 1
PRIMES == sieve(<<>>, saturating_add(ONE, 1))

get_prime(i) == IF i < Len(PRIMES) THEN Some(PRIMES[i + 1]) ELSE None

div_exact(x, other) ==
    LET rem == x % other
        quo == x \div other
    IN  IF rem = 0 THEN (IF quo = 0 THEN None ELSE Some(quo)) ELSE None

is_multiple(x, other) == x % other = 0

(* --------------------------- element mapping --------------------------- *)

\* impl PrimeBagElement for usize
to_prime_index(e) == e

from_prime_index(value) == value

(* --------------------------------- Bag --------------------------------- *)

\* PrimeBag::default() / EMPTY
EMPTY == ONE

RECURSIVE try_extend_partial(_, _, _)
\* the loop of try_extend handing back what it has built when an element
\* cannot be added
try_extend_partial(b, iter, k) ==
    IF k > Len(iter) THEN Some(b)
    ELSE LET p == get_prime(to_prime_index(iter[k]))
         IN  IF ~p.some THEN Some(b)
             ELSE LET m == checked_mul(b, p.val)
                  IN  IF ~m.some THEN Some(b)
                      ELSE try_extend_partial(m.val, iter, k + 1)

RECURSIVE try_extend_from(_, _, _)
\* the for loop of try_extend from position k of iter, b the running product
try_extend_from(b, iter, k) ==
    IF k > Len(iter) THEN Some(b)
    ELSE LET u == to_prime_index(iter[k])
             p == get_prime(u)
         IN  IF ~p.some THEN None
             ELSE LET m == checked_mul(b, p.val)
                  IN  IF ~m.some THEN None
                      ELSE try_extend_from(m.val, iter, k + 1)

\* the same loop with the multiplication wrapping instead of checked
RECURSIVE try_extend_wrapping(_, _)
try_extend_wrapping(self, iter) ==
    IF iter = <<>> THEN Some(self)
    ELSE LET p == get_prime(to_prime_index(Head(iter)))
         IN  IF ~p.some THEN None
             ELSE LET w == (self * p.val) % (MAX + 1)
                  IN  IF w = 0 THEN None ELSE try_extend_wrapping(w, Tail(iter))

try_extend(self, iter) == try_extend_from(self, iter, 1)

try_from_iter(iter) == try_extend(EMPTY, iter)

\* count_instances: index 0 by trailing zeros, the others by repeated
\* exact division
RECURSIVE count_div(_, _)
count_div(b, p) ==
    LET new_b == div_exact(b, p)
    IN  IF new_b.some THEN 1 + count_div(new_b.val, p) ELSE 0

\* count_instances telling only whether the value is there
count_instances_presence(self, value) ==
    LET p == get_prime(to_prime_index(value))
    IN  IF p.some /\ is_multiple(self, p.val) THEN 1 ELSE 0

count_instances(self, value) ==
    LET u == to_prime_index(value)
    IN  IF u = 0 THEN trailing_zeros(self)
        ELSE LET p == get_prime(u)
             IN  IF p.some THEN count_div(self, p.val) ELSE 0

\* try_insert with the multiplication wrapping instead of checked
try_insert_wrapping(self, value) ==
    LET p == get_prime(to_prime_index(value))
    IN  IF ~p.some THEN None
        ELSE LET w == (self * p.val) % (MAX + 1)
             IN  IF w = 0 THEN None ELSE Some(w)

try_insert(self, value) ==
    LET u == to_prime_index(value)
        p == get_prime(u)
    IN  IF ~p.some THEN None ELSE checked_mul(self, p.val)

RECURSIVE checked_pow(_, _)
\* NonZero::checked_pow: None when the power does not fit the width
checked_pow(x, n) ==
    IF n = 0 THEN Some(ONE)
    ELSE LET r == checked_pow(x, n - 1)
         IN  IF r.some THEN checked_mul(r.val, x) ELSE None

\* try_remove that hands the bag back when the value is absent
try_remove_lenient(self, value) ==
    LET p == get_prime(to_prime_index(value))
    IN  IF ~p.some THEN None
        ELSE LET d == div_exact(self, p.val)
             IN  IF d.some THEN d ELSE Some(self)

RECURSIVE strip_all(_, _)
strip_all(x, p) ==
    LET d == div_exact(x, p) IN IF d.some THEN strip_all(d.val, p) ELSE x

\* try_remove that takes every copy of the value out
try_remove_all(self, value) ==
    LET p == get_prime(to_prime_index(value))
    IN  IF ~p.some THEN None
        ELSE IF div_exact(self, p.val).some THEN Some(strip_all(self, p.val))
        ELSE None

try_remove(self, value) ==
    LET u == to_prime_index(value)
        p == get_prime(u)
    IN  IF ~p.some THEN None ELSE div_exact(self, p.val)

\* try_insert_many with the multiplication wrapping instead of checked
try_insert_many_wrapping(self, value, count) ==
    LET p == get_prime(to_prime_index(value))
    IN  IF ~p.some THEN None
        ELSE LET p2 == checked_pow(p.val, count)
             IN  IF ~p2.some THEN None
                 ELSE LET w == (self * p2.val) % (MAX + 1)
                      IN  IF w = 0 THEN None ELSE Some(w)

\* try_insert_many that multiplies by the prime and not by its power
try_insert_many_single(self, value, count) ==
    LET p == get_prime(to_prime_index(value))
    IN  IF ~p.some THEN None
        ELSE IF ~checked_pow(p.val, count).some THEN None
        ELSE checked_mul(self, p.val)

try_insert_many(self, value, count) ==
    LET u == to_prime_index(value)
        p == get_prime(u)
    IN  IF ~p.some THEN None
        ELSE LET p2 == checked_pow(p.val, count)
             IN  IF ~p2.some THEN None ELSE checked_mul(self, p2.val)

contains(self, value) ==
    LET u == to_prime_index(value)
        p == get_prime(u)
    IN  IF p.some THEN is_multiple(self, p.val) ELSE FALSE

\* contains_at_least that looks for the prime and not for its power
contains_at_least_once(self, value, n) ==
    LET p == get_prime(to_prime_index(value))
    IN  IF p.some THEN is_multiple(self, p.val) ELSE FALSE

contains_at_least(self, value, n) ==
    LET u == to_prime_index(value)
        p == get_prime(u)
    IN  IF p.some
        THEN LET pw == checked_pow(p.val, n)
             IN  IF pw.some THEN is_multiple(self, pw.val) ELSE FALSE
        ELSE FALSE

\* from_inner that clears the top bit of the raw value
from_inner_masked(inner) ==
    IF inner > 2^(BITS - 1) THEN inner - 2^(BITS - 1) ELSE inner

\* a bag is the raw integer it wraps (Self(inner, PhantomData))
from_inner(inner) == inner

into_inner(self) == self

\* is_superset that asks for the elements of rhs to be present, whatever
\* their number
is_superset_any(self, rhs) ==
    \A i \in 0..(NUM_PRIMES - 1) :
        is_multiple(rhs, PRIMES[i + 1]) => is_multiple(self, PRIMES[i + 1])

is_superset(self, rhs) == is_multiple(self, rhs)

is_subset(self, rhs) == is_superset(rhs, self)

is_empty(self) == self = ONE

\* try_sum with the multiplication wrapping instead of checked
try_sum_wrapping(self, rhs) ==
    LET w == (self * rhs) % (MAX + 1)
    IN  IF w = 0 THEN None ELSE Some(w)

try_sum(self, rhs) == checked_mul(self, rhs)

\* x | y
RECURSIVE bit_or(_, _)
bit_or(x, y) ==
    IF x = 0 THEN y
    ELSE IF y = 0 THEN x
    ELSE (IF x % 2 = 1 \/ y % 2 = 1 THEN 1 ELSE 0)
         + 2 * bit_or(x \div 2, y \div 2)

RECURSIVE binary_gcd_loop(_, _)
\* the loop of the binary GCD: u is odd; strip the twos of v, order the two,
\* subtract
binary_gcd_loop(u, v) ==
    LET v1 == shr(v, trailing_zeros(v))
        lo == IF u > v1 THEN v1 ELSE u
        hi == IF u > v1 THEN u ELSE v1
    IN  IF hi - lo = 0 THEN lo ELSE binary_gcd_loop(lo, hi - lo)

\* gcd::binary_nonzero_u8
binary_nonzero(u, v) ==
    LET shift == trailing_zeros(bit_or(u, v))
        u1 == shr(u, shift)
        v1 == shr(v, shift)
        u2 == shr(u1, trailing_zeros(u1))
    IN  binary_gcd_loop(u2, v1) * 2^shift

gcd(lhs, rhs) == binary_nonzero(lhs, rhs)

\* the LCM computed as (lhs * rhs) / gcd, the product checked first
lcm_product_first(lhs, rhs) ==
    LET product == checked_mul(lhs, rhs)
    IN  IF ~product.some THEN None
        ELSE div_exact(product.val, gcd(lhs, rhs))

\* the LCM with the quotient multiplied back into lhs instead of rhs
lcm_lhs_again(lhs, rhs) ==
    LET g == gcd(lhs, rhs)
        divided == div_exact(lhs, g)
    IN  IF ~divided.some THEN None ELSE checked_mul(lhs, divided.val)

lcm(lhs, rhs) ==
    LET g == gcd(lhs, rhs)
        divided == div_exact(lhs, g)
    IN  IF ~divided.some THEN None ELSE checked_mul(rhs, divided.val)

try_union(self, rhs) == lcm(self, rhs)

\* try_difference by truncating division, without the remainder test
try_difference_truncating(self, rhs) ==
    IF self \div rhs = 0 THEN None ELSE Some(self \div rhs)

try_difference(self, rhs) == div_exact(self, rhs)

\* the intersection taken as the smaller operand
intersection_smaller(self, rhs) == IF self < rhs THEN self ELSE rhs

intersection(self, rhs) == gcd(self, rhs)

(* --------------------------- forward iterator -------------------------- *)

\* PrimeBagIter::new
iter_new(c) == [chunk |-> c, prime_index |-> 0]

\* what a call leaves behind: the iterator and the returned Option<E>
Step(c, pi, item) == [chunk |-> c, prime_index |-> pi, item |-> item]

RECURSIVE iter_next_loop_overrun(_, _)
\* the loop of next stepping past the index at which the table ends
iter_next_loop_overrun(c, pi) ==
    LET prime == get_prime(pi)
    IN  IF ~prime.some THEN Step(c, pi + 1, None)
        ELSE LET new_chunk == div_exact(c, prime.val)
             IN  IF new_chunk.some
                 THEN Step(new_chunk.val, pi, Some(from_prime_index(pi)))
                 ELSE iter_next_loop_overrun(c, pi + 1)

RECURSIVE iter_next_loop(_, _)
\* the loop of Iterator::next
iter_next_loop(c, pi) ==
    LET prime == get_prime(pi)
    IN  IF ~prime.some THEN Step(c, pi, None)
        ELSE LET new_chunk == div_exact(c, prime.val)
             IN  IF new_chunk.some
                 THEN Step(new_chunk.val, pi, Some(from_prime_index(pi)))
                 ELSE iter_next_loop(c, pi + 1)

\* next that moves on to the following prime after every yielded element
RECURSIVE iter_next_skipping(_)
iter_next_skipping(self) ==
    IF self.chunk = ONE THEN Step(self.chunk, self.prime_index, None)
    ELSE LET prime == get_prime(self.prime_index)
         IN  IF ~prime.some THEN Step(self.chunk, self.prime_index, None)
             ELSE LET new_chunk == div_exact(self.chunk, prime.val)
                  IN  IF new_chunk.some
                      THEN Step(new_chunk.val, self.prime_index + 1,
                                Some(from_prime_index(self.prime_index)))
                      ELSE iter_next_skipping(
                               [chunk |-> self.chunk,
                                prime_index |-> self.prime_index + 1])

\* Iterator::next
iter_next(self) ==
    IF self.chunk = ONE THEN Step(self.chunk, self.prime_index, None)
    ELSE iter_next_loop(self.chunk, self.prime_index)

RECURSIVE nth_from(_, _)
\* Iterator::nth is not overridden: n calls of next that must each yield,
\* then the next one
nth_from(self, n) ==
    LET r == iter_next(self)
    IN  IF n = 0 THEN r.item
        ELSE IF ~r.item.some THEN None
        ELSE nth_from([chunk |-> r.chunk, prime_index |-> r.prime_index], n - 1)

iter_nth(self, n) == nth_from(self, n)

RECURSIVE collect(_)
\* Iterator::collect on the forward iterator: next until it returns None
collect(self) ==
    LET r == iter_next(self)
    IN  IF r.item.some
        THEN <<r.item.val>>
             \o collect([chunk |-> r.chunk, prime_index |-> r.prime_index])
        ELSE <<>>

RECURSIVE ilog(_, _)
\* x.ilog(base): the largest n with base^n <= x
ilog(x, base) == IF x < base THEN 0 ELSE 1 + ilog(x \div base, base)

\* size_hint from the point where twos, chunk and prime_index are known
size_hint_tail(twos, chunk, prime_index) ==
    IF chunk = 1 THEN [lo |-> twos, hi |-> Some(twos)]
    ELSE LET prime == get_prime(prime_index)
         IN  IF ~prime.some THEN [lo |-> twos, hi |-> None]
             ELSE [lo |-> twos + 1,
                   hi |-> Some(twos + ilog(chunk, prime.val))]

\* size_hint leaving the twos out of the upper bound
size_hint_without_twos(self) ==
    LET tz == IF self.prime_index = 0 THEN trailing_zeros(self.chunk) ELSE 0
        h == size_hint_tail(0, shr(self.chunk, tz),
                            IF self.prime_index = 0 THEN 1
                            ELSE self.prime_index)
    IN  [lo |-> tz + h.lo, hi |-> h.hi]

\* Iterator::size_hint
size_hint(self) ==
    IF self.prime_index = 0
    THEN LET tz == trailing_zeros(self.chunk)
             new_chunk == shr(self.chunk, tz)
         IN  IF new_chunk # 0 THEN size_hint_tail(tz, new_chunk, 1)
             ELSE [lo |-> tz, hi |-> Some(tz)]
    ELSE size_hint_tail(0, self.chunk, self.prime_index)

RECURSIVE count_run(_, _, _)
\* the inner while loop of count: divide the prime out while it divides
count_run(chunk, prime, count) ==
    IF chunk % prime = 0 /\ chunk \div prime # 0
    THEN count_run(chunk \div prime, prime, count + 1)
    ELSE [chunk |-> chunk, count |-> count]

RECURSIVE count_loop(_, _, _)
\* the outer while loop of count
count_loop(chunk, prime_index, count) ==
    IF chunk > ONE
    THEN LET prime == get_prime(prime_index)
         IN  IF ~prime.some THEN count
             ELSE LET run == count_run(chunk, prime.val, count)
                  IN  count_loop(run.chunk, prime_index + 1, run.count)
    ELSE count

\* count that counts each prime once, however often it divides
iter_count_distinct(self) ==
    Cardinality({i \in self.prime_index..(NUM_PRIMES - 1) :
                    self.chunk % PRIMES[i + 1] = 0})

\* Iterator::count
iter_count(self) ==
    IF self.prime_index = 0
    THEN LET tz == trailing_zeros(self.chunk)
             new_chunk == shr(self.chunk, tz)
         IN  IF new_chunk = 0 THEN 0 ELSE count_loop(new_chunk, 1, tz)
    ELSE count_loop(self.chunk, self.prime_index, 0)

(* --------------------------- backward iterator ------------------------- *)

\* PRIMES[skip..].binary_search(&number): Ok(offset) of the match, or
\* Err(offset) of the insertion point; the table is strictly ascending
binary_search(skip, number) ==
    LET idx == {i \in skip..(Len(PRIMES) - 1) : PRIMES[i + 1] = number}
        below == {i \in skip..(Len(PRIMES) - 1) : PRIMES[i + 1] < number}
    IN  IF idx # {}
        THEN [ok |-> TRUE, offset |-> (CHOOSE i \in idx : TRUE) - skip]
        ELSE [ok |-> FALSE, offset |-> Cardinality(below)]

find_largest_possible_prime(skip, number) ==
    LET r == binary_search(skip, number)
    IN  [ok |-> r.ok, index |-> r.offset + skip]

\* NonZero::try_from(x).unwrap_or(NonZero::MIN)
nonzero_or_min(x) == IF x = 0 THEN ONE ELSE x

RECURSIVE next_back_loop_stripped(_, _, _)
\* the downward walk dividing the searched chunk, from which the twos are
\* gone, instead of the iterator's own
next_back_loop_stripped(self, c, pi) ==
    IF pi = 0 THEN Step(self.chunk, self.prime_index, None)
    ELSE LET prime == get_prime(pi - 1)
         IN  IF ~prime.some THEN Step(self.chunk, self.prime_index, None)
             ELSE IF c % prime.val = 0
                  THEN Step(nonzero_or_min(c \div prime.val),
                            self.prime_index,
                            Some(from_prime_index(pi - 1)))
                  ELSE next_back_loop_stripped(self, c, pi - 1)

RECURSIVE next_back_loop(_, _, _)
\* the downward walk of next_back from prime_index: c is the searched chunk
\* (twos stripped when the iterator stands at index 0)
next_back_loop(self, c, pi) ==
    IF pi = 0 THEN Step(self.chunk, self.prime_index, None)
    ELSE LET prime_index == pi - 1
             prime == get_prime(prime_index)
         IN  IF ~prime.some THEN Step(self.chunk, self.prime_index, None)
             ELSE IF c % prime.val = 0
                  THEN Step(nonzero_or_min(self.chunk \div prime.val),
                            self.prime_index,
                            Some(from_prime_index(prime_index)))
                  ELSE next_back_loop(self, c, prime_index)

\* the search taking an exact match for the sole remaining factor and leaving
\* the iterator empty
next_back_search_sole(self, start_index, c) ==
    LET found == binary_search(start_index, c)
    IN  IF found.ok
        THEN Step(ONE, self.prime_index,
                  Some(from_prime_index(found.offset + start_index)))
        ELSE next_back_loop(self, c, found.offset + start_index)

\* the search of next_back once start_index and the searched chunk are known
next_back_search(self, start_index, c) ==
    LET found == binary_search(start_index, c)
    IN  IF found.ok
        THEN LET index == found.offset + start_index
                 p == get_prime(index)
                 prime == IF p.some THEN p.val ELSE ONE
             IN  Step(nonzero_or_min(self.chunk \div prime), self.prime_index,
                      Some(from_prime_index(index)))
        ELSE next_back_loop(self, c, found.offset + start_index)

\* DoubleEndedIterator::next_back
next_back(self) ==
    IF self.chunk = ONE THEN Step(self.chunk, self.prime_index, None)
    ELSE IF self.prime_index = 0
         THEN LET c == nonzero_or_min(shr(self.chunk, trailing_zeros(self.chunk)))
              IN  IF c = ONE
                  THEN Step(nonzero_or_min(self.chunk \div 2), self.prime_index,
                            Some(from_prime_index(0)))
                  ELSE next_back_search(self, 1, c)
         ELSE next_back_search(self, self.prime_index, self.chunk)

\* Iterator::last
iter_last(self) == next_back(self).item

(* ---------------------------- group iterator --------------------------- *)

RECURSIVE group_run(_, _, _)
\* the inner while loop of the group iterator: divide the prime out while it
\* divides, counting
group_run(c, prime, count) ==
    LET new_chunk == div_exact(c, prime)
    IN  IF new_chunk.some THEN group_run(new_chunk.val, prime, count + 1)
        ELSE [chunk |-> c, count |-> count]

RECURSIVE group_next_loop(_, _)
group_next_loop(c, pi) ==
    LET prime == get_prime(pi)
    IN  IF ~prime.some THEN Step(c, pi, None)
        ELSE LET new_chunk == div_exact(c, prime.val)
             IN  IF new_chunk.some
                 THEN LET run == group_run(new_chunk.val, prime.val, 1)
                      IN  Step(run.chunk, pi + 1,
                               Some(<<from_prime_index(pi), run.count>>))
                 ELSE group_next_loop(c, pi + 1)

\* the group iterator yielding one pair per factor instead of one per run
group_next_single(self) ==
    LET r == iter_next(self)
    IN  Step(r.chunk, r.prime_index,
             IF r.item.some THEN Some(<<r.item.val, 1>>) ELSE None)

\* PrimeBagGroupIter::next
group_next(self) ==
    IF self.chunk = ONE THEN Step(self.chunk, self.prime_index, None)
    ELSE group_next_loop(self.chunk, self.prime_index)

(* ------------------- the 16-bit instantiation ------------------------- *)
(* Helpers16 / PrimeBag16 / PrimeBagIter16: the same macros over u16, as   *)
(* far as the conversion from PrimeBag8 needs them.                        *)

\* width of the wider backing integer (u16 / NonZeroU16)
BITS16 == 16

MAX16 == 2^BITS16 - 1

saturating_add16(x, y) == IF x + y > MAX16 THEN MAX16 ELSE x + y

checked_mul16(x, y) == IF x * y > MAX16 THEN None ELSE Some(x * y)

next_stored16(arr, current) ==
    CHOOSE c \in current..MAX16 :
        /\ ~factor_found(arr, c)
        /\ \A d \in current..(c - 1) : factor_found(arr, d)

RECURSIVE sieve16(_, _)
sieve16(arr, current) ==
    IF Len(arr) >= NUM_PRIMES THEN arr
    ELSE LET found == next_stored16(arr, current)
         IN  sieve16(Append(arr, found), saturating_add16(found, 1))

PRIMES16 == sieve16(<<>>, saturating_add16(ONE, 1))

get_prime16(i) == IF i < Len(PRIMES16) THEN Some(PRIMES16[i + 1]) ELSE None

RECURSIVE try_extend_from16(_, _, _)
try_extend_from16(b, iter, k) ==
    IF k > Len(iter) THEN Some(b)
    ELSE LET u == to_prime_index(iter[k])
             p == get_prime16(u)
         IN  IF ~p.some THEN None
             ELSE LET m == checked_mul16(b, p.val)
                  IN  IF ~m.some THEN None
                      ELSE try_extend_from16(m.val, iter, k + 1)

try_extend16(self, iter) == try_extend_from16(self, iter, 1)

try_from_iter16(iter) == try_extend16(EMPTY, iter)

RECURSIVE iter_next_loop16(_, _)
iter_next_loop16(c, pi) ==
    LET prime == get_prime16(pi)
    IN  IF ~prime.some THEN Step(c, pi, None)
        ELSE LET new_chunk == div_exact(c, prime.val)
             IN  IF new_chunk.some
                 THEN Step(new_chunk.val, pi, Some(from_prime_index(pi)))
                 ELSE iter_next_loop16(c, pi + 1)

iter_next16(self) ==
    IF self.chunk = ONE THEN Step(self.chunk, self.prime_index, None)
    ELSE iter_next_loop16(self.chunk, self.prime_index)

RECURSIVE collect16(_)
collect16(self) ==
    LET r == iter_next16(self)
    IN  IF r.item.some
        THEN <<r.item.val>>
             \o collect16([chunk |-> r.chunk, prime_index |-> r.prime_index])
        ELSE <<>>

\* PRIMES[skip..].binary_search(&number) in the 16-bit table
binary_search16(skip, number) ==
    LET idx == {i \in skip..(Len(PRIMES16) - 1) : PRIMES16[i + 1] = number}
        below == {i \in skip..(Len(PRIMES16) - 1) : PRIMES16[i + 1] < number}
    IN  IF idx # {}
        THEN [ok |-> TRUE, offset |-> (CHOOSE i \in idx : TRUE) - skip]
        ELSE [ok |-> FALSE, offset |-> Cardinality(below)]

RECURSIVE next_back_loop16(_, _, _)
next_back_loop16(self, c, pi) ==
    IF pi = 0 THEN Step(self.chunk, self.prime_index, None)
    ELSE LET prime_index == pi - 1
             prime == get_prime16(prime_index)
         IN  IF ~prime.some THEN Step(self.chunk, self.prime_index, None)
             ELSE IF c % prime.val = 0
                  THEN Step(nonzero_or_min(self.chunk \div prime.val),
                            self.prime_index,
                            Some(from_prime_index(prime_index)))
                  ELSE next_back_loop16(self, c, prime_index)

next_back_search16(self, start_index, c) ==
    LET found == binary_search16(start_index, c)
    IN  IF found.ok
        THEN LET index == found.offset + start_index
                 p == get_prime16(index)
                 prime == IF p.some THEN p.val ELSE ONE
             IN  Step(nonzero_or_min(self.chunk \div prime), self.prime_index,
                      Some(from_prime_index(index)))
        ELSE next_back_loop16(self, c, found.offset + start_index)

next_back16(self) ==
    IF self.chunk = ONE THEN Step(self.chunk, self.prime_index, None)
    ELSE IF self.prime_index = 0
         THEN LET c == nonzero_or_min(shr(self.chunk, trailing_zeros(self.chunk)))
              IN  IF c = ONE
                  THEN Step(nonzero_or_min(self.chunk \div 2), self.prime_index,
                            Some(from_prime_index(0)))
                  ELSE next_back_search16(self, 1, c)
         ELSE next_back_search16(self, self.prime_index, self.chunk)

RECURSIVE collect_rev16(_)
\* iter.rev().collect(): next_back until it returns None
collect_rev16(self) ==
    LET r == next_back16(self)
    IN  IF r.item.some
        THEN <<r.item.val>>
             \o collect_rev16([chunk |-> r.chunk, prime_index |-> r.prime_index])
        ELSE <<>>

\* u16::from(u8): the eight bits of x below eight zero bits
u16_from_u8(x) == x % 2^BITS

\* the conversion extending the sign bit instead of filling with zeros
from_bag8_to_bag16_signed(value) ==
    IF value >= 2^(BITS - 1) THEN value + (2^BITS16 - 2^BITS) ELSE value

\* impl From<PrimeBag8<E>> for PrimeBag16<E>
from_bag8_to_bag16(value) == u16_from_u8(value)

(* ------------------------------- inputs -------------------------------- *)

\* element indices the inputs are drawn from: the smallest ones, the last
\* valid one and the first one without a table entry
Elems == (0..MaxIndex) \cup {NUM_PRIMES - 1, NUM_PRIMES}

InputSeqs == UNION {[1..n -> Elems] : n \in 0..MaxLen}

\* sequences handed to try_extend on a bag that already holds elements
ExtendSeqs == UNION {[1..n -> Elems] : n \in 0..MaxExtend}

\* counts handed to try_insert_many and contains_at_least
Counts == 0..MaxCount

\* the raw values from_inner accepts: every nonzero value of the width
RawValues == 1..MAX

\* arguments of nth: every position of the longest input and one past it
NthArgs == 0..(MaxLen + 1)

(* -------------------------------- state -------------------------------- *)

VARIABLES
    pc,          \* position of the calling program
    seq,         \* the sequence handed to try_from_iter
    bag,         \* Option<PrimeBag>: the result of try_from_iter
    it,          \* the PrimeBagIter (chunk, prime_index)
    front,       \* elements returned by next, in call order
    back,        \* elements returned by next_back, in call order
    front_done,  \* next has returned None
    back_done,   \* next_back has returned None
    git,         \* the PrimeBagGroupIter (chunk, prime_index)
    groups,      \* pairs returned by the group iterator's next
    groups_done, \* the group iterator's next has returned None
    arg,         \* argument of the last nth or count_instances
    res,         \* Option returned by the last nth or last, or Some of the
                 \* number returned by the last count_instances, of the
                 \* wider bag of the last conversion or of the raw value
                 \* of the last into_inner
    a,           \* the receiver bag of the set operations
    b,           \* the argument bag of the set operations
    op,          \* the last set operation called on a
    elem,        \* the element handed to the last operation
    out,         \* Option<PrimeBag> returned by the last operation
    flag,        \* bool returned by the last test
    num,         \* the count handed to the last operation
    items,       \* the sequence handed to the last try_extend
    listed,      \* the elements collected from a by the last iteration
    raw,         \* the raw integer handed to from_inner
    hint,        \* (lo, hi) returned by the last size_hint
    sv           \* the const evaluation of one instantiation's PRIMES

vars == <<pc, seq, bag, it, front, back, front_done, back_done,
          git, groups, groups_done, arg, res, a, b, op, elem, out, flag,
          num, items, listed, raw, hint, sv>>

\* the state of the program that builds a bag from a sequence and iterates it
build_vars == <<pc, seq, bag, it, front, back, front_done, back_done,
                git, groups, groups_done, arg, res, raw, hint, sv>>

\* the state of the program that combines two bags
algebra_vars == <<a, b, op, elem, out, flag, num, items, listed>>

iter_vars == <<it, front, back, front_done, back_done>>

group_vars == <<git, groups, groups_done>>

\* size_hint not called yet
NoHint == [lo |-> 0, hi |-> None]

\* no table under evaluation
NoSieve ==
    [pc |-> "idle", bits |-> BITS, primes256 |-> FALSE, k |-> NUM_PRIMES,
     arr |-> <<>>, current |-> ONE, sat |-> FALSE, i |-> 0, got |-> None]

\* no operation called yet on two empty bags
AlgebraIdle ==
    /\ a = EMPTY
    /\ b = EMPTY
    /\ op = "none"
    /\ elem = 0
    /\ out = None
    /\ flag = FALSE
    /\ num = 0
    /\ items = <<>>
    /\ listed = <<>>

Init ==
    /\ AlgebraIdle
    /\ pc = "start"
    /\ seq \in InputSeqs
    /\ bag = None
    /\ it = iter_new(ONE)
    /\ front = <<>>
    /\ back = <<>>
    /\ front_done = FALSE
    /\ back_done = FALSE
    /\ git = iter_new(ONE)
    /\ groups = <<>>
    /\ groups_done = FALSE
    /\ arg = 0
    /\ res = None
    /\ raw = ONE
    /\ hint = NoHint
    /\ sv = NoSieve

\* let bag = PrimeBag::try_from_iter(seq)
TryFromIter ==
    /\ pc = "start"
    /\ bag' = try_from_iter(seq)
    /\ pc' = "built"
    /\ UNCHANGED <<algebra_vars, raw, hint, sv>>
    /\ UNCHANGED <<seq, iter_vars, group_vars, arg, res>>

\* let mut iter = bag.unwrap().into_iter()
IntoIter ==
    /\ pc = "built"
    /\ bag.some
    /\ it' = iter_new(bag.val)
    /\ pc' = "iter"
    /\ UNCHANGED <<algebra_vars, raw, hint, sv>>
    /\ UNCHANGED <<seq, bag, front, back, front_done, back_done,
                   group_vars, arg, res>>

\* iter.next()
IterNext ==
    /\ pc = "iter"
    /\ LET r == iter_next(it)
       IN  /\ it' = [chunk |-> r.chunk, prime_index |-> r.prime_index]
           /\ front' = IF r.item.some THEN Append(front, r.item.val) ELSE front
           /\ front_done' = (front_done \/ ~r.item.some)
    /\ UNCHANGED <<algebra_vars, raw, hint, sv>>
    /\ UNCHANGED <<pc, seq, bag, back, back_done, group_vars, arg, res>>

\* iter.next_back()
IterNextBack ==
    /\ pc = "iter"
    /\ LET r == next_back(it)
       IN  /\ it' = [chunk |-> r.chunk, prime_index |-> r.prime_index]
           /\ back' = IF r.item.some THEN Append(back, r.item.val) ELSE back
           /\ back_done' = (back_done \/ ~r.item.some)
    /\ UNCHANGED <<algebra_vars, raw, hint, sv>>
    /\ UNCHANGED <<pc, seq, bag, front, front_done, group_vars, arg, res>>

\* bag.unwrap().into_iter().nth(n)
IterNth(n) ==
    /\ pc = "built"
    /\ bag.some
    /\ res' = iter_nth(iter_new(bag.val), n)
    /\ arg' = n
    /\ pc' = "nth"
    /\ UNCHANGED <<algebra_vars, raw, hint, sv>>
    /\ UNCHANGED <<seq, bag, iter_vars, group_vars>>

\* bag.unwrap().into_iter().last()
IterLast ==
    /\ pc = "built"
    /\ bag.some
    /\ res' = iter_last(iter_new(bag.val))
    /\ pc' = "last"
    /\ UNCHANGED <<algebra_vars, raw, hint, sv>>
    /\ UNCHANGED <<seq, bag, iter_vars, group_vars, arg>>

\* let mut groups = bag.unwrap().iter_groups()
IterGroups ==
    /\ pc = "built"
    /\ bag.some
    /\ git' = iter_new(bag.val)
    /\ pc' = "groups"
    /\ UNCHANGED <<algebra_vars, raw, hint, sv>>
    /\ UNCHANGED <<seq, bag, iter_vars, groups, groups_done, arg, res>>

\* groups.next()
GroupNext ==
    /\ pc = "groups"
    /\ LET r == group_next(git)
       IN  /\ git' = [chunk |-> r.chunk, prime_index |-> r.prime_index]
           /\ groups' = IF r.item.some THEN Append(groups, r.item.val) ELSE groups
           /\ groups_done' = (groups_done \/ ~r.item.some)
    /\ UNCHANGED <<algebra_vars, raw, hint, sv>>
    /\ UNCHANGED <<pc, seq, bag, iter_vars, arg, res>>

\* bag.unwrap().count_instances(e)
CountInstances(e) ==
    /\ pc = "built"
    /\ bag.some
    /\ res' = Some(count_instances(bag.val, e))
    /\ arg' = e
    /\ pc' = "count"
    /\ UNCHANGED <<algebra_vars, raw, hint, sv>>
    /\ UNCHANGED <<seq, bag, iter_vars, group_vars>>

\* let wide: PrimeBag16 = bag.unwrap().into()
Widen ==
    /\ pc = "built"
    /\ bag.some
    /\ res' = Some(from_bag8_to_bag16(bag.val))
    /\ pc' = "widened"
    /\ UNCHANGED <<algebra_vars, raw, hint, sv>>
    /\ UNCHANGED <<seq, bag, iter_vars, group_vars, arg>>

\* iter.size_hint()
SizeHint ==
    /\ pc = "iter"
    /\ hint' = size_hint(it)
    /\ pc' = "hinted"
    /\ UNCHANGED <<algebra_vars, raw, sv>>
    /\ UNCHANGED <<seq, bag, iter_vars, group_vars, arg, res>>

\* iter.count()
IterCount ==
    /\ pc = "iter"
    /\ res' = Some(iter_count(it))
    /\ pc' = "counted"
    /\ UNCHANGED <<algebra_vars, raw, hint, sv>>
    /\ UNCHANGED <<seq, bag, iter_vars, group_vars, arg>>

Next ==
    \/ TryFromIter
    \/ IntoIter
    \/ IterNext
    \/ IterNextBack
    \/ \E n \in NthArgs : IterNth(n)
    \/ IterLast
    \/ IterGroups
    \/ GroupNext
    \/ \E e \in Elems : CountInstances(e)
    \/ Widen
    \/ SizeHint
    \/ IterCount

Spec == Init /\ [][Next]_vars

(* --------------------- the program combining two bags ------------------ *)

InitAlgebra ==
    /\ AlgebraIdle
    /\ pc = "start"
    /\ seq = <<>>
    /\ bag = None
    /\ it = iter_new(ONE)
    /\ front = <<>>
    /\ back = <<>>
    /\ front_done = FALSE
    /\ back_done = FALSE
    /\ git = iter_new(ONE)
    /\ groups = <<>>
    /\ groups_done = FALSE
    /\ arg = 0
    /\ res = None
    /\ raw = ONE
    /\ hint = NoHint
    /\ sv = NoSieve

\* an insertion that writes its result into the receiver
TryInsertInPlace(e) ==
    /\ op = "none"
    /\ try_insert(a, e).some
    /\ op' = "try_insert" /\ elem' = e
    /\ out' = try_insert(a, e)
    /\ a' = try_insert(a, e).val
    /\ UNCHANGED <<b, flag, num, items, listed, build_vars>>

\* a.try_insert(e)
TryInsert(e) ==
    /\ op = "none"
    /\ op' = "try_insert" /\ elem' = e
    /\ out' = try_insert(a, e)
    /\ UNCHANGED <<a, b, flag, num, items, listed, build_vars>>

\* a.try_sum(&b)
TrySum ==
    /\ op = "none"
    /\ op' = "try_sum"
    /\ out' = try_sum(a, b)
    /\ UNCHANGED <<a, b, elem, flag, num, items, listed, build_vars>>

\* a.try_union(&b)
TryUnion ==
    /\ op = "none"
    /\ op' = "try_union"
    /\ out' = try_union(a, b)
    /\ UNCHANGED <<a, b, elem, flag, num, items, listed, build_vars>>

\* a.try_difference(&b)
TryDifference ==
    /\ op = "none"
    /\ op' = "try_difference"
    /\ out' = try_difference(a, b)
    /\ UNCHANGED <<a, b, elem, flag, num, items, listed, build_vars>>

\* a.intersection(&b)
Intersection ==
    /\ op = "none"
    /\ op' = "intersection"
    /\ out' = Some(intersection(a, b))
    /\ UNCHANGED <<a, b, elem, flag, num, items, listed, build_vars>>

\* a.is_superset(&b)
IsSuperset ==
    /\ op = "none"
    /\ op' = "is_superset"
    /\ flag' = is_superset(a, b)
    /\ UNCHANGED <<a, b, elem, out, num, items, listed, build_vars>>

\* a.is_subset(&b)
IsSubset ==
    /\ op = "none"
    /\ op' = "is_subset"
    /\ flag' = is_subset(a, b)
    /\ UNCHANGED <<a, b, elem, out, num, items, listed, build_vars>>

\* a = <the bag just returned> (a PrimeBag8: not the wide bag of a conversion)
AdoptA ==
    /\ out.some
    /\ op # "into_wide"
    /\ a' = out.val
    /\ op' = "none" /\ elem' = 0 /\ out' = None /\ flag' = FALSE
    /\ num' = 0 /\ items' = <<>> /\ listed' = <<>>
    /\ UNCHANGED <<b, build_vars>>

\* b = <the bag just returned>
AdoptB ==
    /\ out.some
    /\ b' = out.val
    /\ op' = "none" /\ elem' = 0 /\ out' = None /\ flag' = FALSE
    /\ num' = 0 /\ items' = <<>> /\ listed' = <<>>
    /\ UNCHANGED <<a, build_vars>>

\* the value just returned is dropped
Drop ==
    /\ op # "none"
    /\ op' = "none" /\ elem' = 0 /\ out' = None /\ flag' = FALSE
    /\ num' = 0 /\ items' = <<>> /\ listed' = <<>>
    /\ UNCHANGED <<a, b, build_vars>>

\* a = PrimeBag::EMPTY
ClearA ==
    /\ op = "none"
    /\ a # EMPTY
    /\ a' = EMPTY
    /\ UNCHANGED <<b, op, elem, out, flag, num, items, listed, build_vars>>

NextAlgebra ==
    \/ \E e \in Elems : TryInsert(e)
    \/ TrySum
    \/ TryUnion
    \/ TryDifference
    \/ Intersection
    \/ IsSuperset
    \/ IsSubset
    \/ AdoptA
    \/ AdoptB
    \/ Drop
    \/ ClearA

SpecAlgebra == InitAlgebra /\ [][NextAlgebra]_vars

(* ------------------ the program working on one bag -------------------- *)

InitElement ==
    /\ AlgebraIdle
    /\ pc = "start"
    /\ seq = <<>>
    /\ bag = None
    /\ it = iter_new(ONE)
    /\ front = <<>>
    /\ back = <<>>
    /\ front_done = FALSE
    /\ back_done = FALSE
    /\ git = iter_new(ONE)
    /\ groups = <<>>
    /\ groups_done = FALSE
    /\ arg = 0
    /\ res = None
    /\ raw = ONE
    /\ hint = NoHint
    /\ sv = NoSieve

\* a.try_remove(e)
TryRemove(e) ==
    /\ op = "none"
    /\ op' = "try_remove" /\ elem' = e
    /\ out' = try_remove(a, e)
    /\ UNCHANGED <<a, b, flag, num, items, listed, build_vars>>

\* a.try_insert_many(e, n)
TryInsertMany(e, n) ==
    /\ op = "none"
    /\ op' = "try_insert_many" /\ elem' = e /\ num' = n
    /\ out' = try_insert_many(a, e, n)
    /\ UNCHANGED <<a, b, flag, items, listed, build_vars>>

\* a.try_insert(e).unwrap().try_remove(e)
InsertThenRemove(e) ==
    /\ op = "none"
    /\ try_insert(a, e).some
    /\ op' = "insert_remove" /\ elem' = e
    /\ out' = try_remove(try_insert(a, e).val, e)
    /\ UNCHANGED <<a, b, flag, num, items, listed, build_vars>>

\* a.try_extend(s)
TryExtend(s) ==
    /\ op = "none"
    /\ op' = "try_extend" /\ items' = s
    /\ out' = try_extend(a, s)
    /\ UNCHANGED <<a, b, elem, flag, num, listed, build_vars>>

\* a.contains(e)
Contains(e) ==
    /\ op = "none"
    /\ op' = "contains" /\ elem' = e
    /\ flag' = contains(a, e)
    /\ UNCHANGED <<a, b, out, num, items, listed, build_vars>>

\* a.contains_at_least(e, n)
ContainsAtLeast(e, n) ==
    /\ op = "none"
    /\ op' = "contains_at_least" /\ elem' = e /\ num' = n
    /\ flag' = contains_at_least(a, e, n)
    /\ UNCHANGED <<a, b, out, items, listed, build_vars>>

\* a.into_iter().collect()
Collect ==
    /\ op = "none"
    /\ op' = "collect"
    /\ listed' = collect(iter_new(a))
    /\ UNCHANGED <<a, b, elem, out, flag, num, items, build_vars>>

\* let wide: PrimeBag16 = a.into()
IntoWide ==
    /\ op = "none"
    /\ op' = "into_wide"
    /\ out' = Some(from_bag8_to_bag16(a))
    /\ UNCHANGED <<a, b, elem, flag, num, items, listed, build_vars>>

\* b = PrimeBag::EMPTY.try_insert(e).unwrap()
SetB(e) ==
    /\ op = "none"
    /\ try_insert(EMPTY, e).some
    /\ b' = try_insert(EMPTY, e).val
    /\ UNCHANGED <<a, op, elem, out, flag, num, items, listed, build_vars>>

NextElement ==
    \/ \E e \in Elems : TryInsert(e)
    \/ \E e \in Elems : TryRemove(e)
    \/ \E e \in Elems : \E n \in Counts : TryInsertMany(e, n)
    \/ \E e \in Elems : InsertThenRemove(e)
    \/ \E s \in ExtendSeqs : TryExtend(s)
    \/ \E e \in Elems : Contains(e)
    \/ \E e \in Elems : \E n \in Counts : ContainsAtLeast(e, n)
    \/ Collect
    \/ IntoWide
    \/ TrySum
    \/ TryUnion
    \/ TryDifference
    \/ Intersection
    \/ IsSuperset
    \/ IsSubset
    \/ AdoptA
    \/ \E e \in Elems : SetB(e)
    \/ Drop
    \/ ClearA

SpecElement == InitElement /\ [][NextElement]_vars

(* ------------- the program wrapping a raw value in a bag --------------- *)

InitRaw ==
    /\ AlgebraIdle
    /\ pc = "start"
    /\ seq = <<>>
    /\ bag = None
    /\ it = iter_new(ONE)
    /\ front = <<>>
    /\ back = <<>>
    /\ front_done = FALSE
    /\ back_done = FALSE
    /\ git = iter_new(ONE)
    /\ groups = <<>>
    /\ groups_done = FALSE
    /\ arg = 0
    /\ res = None
    /\ raw \in RawValues
    /\ hint = NoHint
    /\ sv = NoSieve

\* let bag = PrimeBag::from_inner(raw)
FromInner ==
    /\ pc = "start"
    /\ bag' = Some(from_inner(raw))
    /\ pc' = "built"
    /\ UNCHANGED <<algebra_vars, raw, hint, sv>>
    /\ UNCHANGED <<seq, iter_vars, group_vars, arg, res>>

\* let inner = bag.into_inner()
IntoInner ==
    /\ pc = "built"
    /\ bag.some
    /\ res' = Some(into_inner(bag.val))
    /\ pc' = "inner"
    /\ UNCHANGED <<algebra_vars, raw, hint, sv>>
    /\ UNCHANGED <<seq, bag, iter_vars, group_vars, arg>>

\* let again = PrimeBag::from_inner(inner); again.into_iter().collect()
Rewrap ==
    /\ pc = "inner"
    /\ res.some
    /\ bag' = Some(from_inner(res.val))
    /\ front' = collect(iter_new(from_inner(res.val)))
    /\ pc' = "rewrapped"
    /\ UNCHANGED <<algebra_vars, raw, hint, sv>>
    /\ UNCHANGED <<seq, it, back, front_done, back_done, group_vars, arg, res>>

NextRaw ==
    \/ FromInner
    \/ IntoInner
    \/ Rewrap
    \/ IntoIter
    \/ IterNext
    \/ IterNextBack
    \/ SizeHint
    \/ IterGroups
    \/ GroupNext

SpecRaw == InitRaw /\ [][NextRaw]_vars

\* the callers that keep calling until None:
\* while let Some(e) = iter.next() {} and the same with next_back and groups
NextDrain ==
    \/ FromInner
    \/ IntoIter
    \/ IterNext
    \/ IterNextBack
    \/ IterGroups
    \/ GroupNext

\* the caller goes on as long as a call can still change anything
SpecRawDrain == InitRaw /\ [][NextDrain]_vars /\ WF_vars(NextDrain)

(* ---------------- raw values in the 16-bit instantiation --------------- *)

RawValues16 == 1..MaxRaw16

InitRaw16 ==
    /\ AlgebraIdle
    /\ pc = "start"
    /\ seq = <<>>
    /\ bag = None
    /\ it = iter_new(ONE)
    /\ front = <<>>
    /\ back = <<>>
    /\ front_done = FALSE
    /\ back_done = FALSE
    /\ git = iter_new(ONE)
    /\ groups = <<>>
    /\ groups_done = FALSE
    /\ arg = 0
    /\ res = None
    /\ raw \in RawValues16
    /\ hint = NoHint
    /\ sv = NoSieve

\* PrimeBag16::from_inner(raw)
FromInner16 ==
    /\ pc = "start"
    /\ bag' = Some(from_inner(raw))
    /\ pc' = "built"
    /\ UNCHANGED <<algebra_vars, raw, hint, sv>>
    /\ UNCHANGED <<seq, iter_vars, group_vars, arg, res>>

\* bag.into_iter()
IntoIter16 ==
    /\ pc = "built"
    /\ it' = iter_new(bag.val)
    /\ pc' = "iter"
    /\ UNCHANGED <<algebra_vars, raw, hint, sv>>
    /\ UNCHANGED <<seq, bag, front, back, front_done, back_done,
                   group_vars, arg, res>>

\* the iterator, a Copy value, collected forwards
CollectForward16 ==
    /\ pc = "iter"
    /\ ~front_done
    /\ front' = collect16(it)
    /\ front_done' = TRUE
    /\ UNCHANGED <<algebra_vars, raw, hint, sv>>
    /\ UNCHANGED <<pc, seq, bag, it, back, back_done, group_vars, arg, res>>

\* the same iterator collected through rev()
CollectBackward16 ==
    /\ pc = "iter"
    /\ ~back_done
    /\ back' = collect_rev16(it)
    /\ back_done' = TRUE
    /\ UNCHANGED <<algebra_vars, raw, hint, sv>>
    /\ UNCHANGED <<pc, seq, bag, it, front, front_done, group_vars, arg, res>>

NextRaw16 ==
    \/ FromInner16
    \/ IntoIter16
    \/ CollectForward16
    \/ CollectBackward16

SpecRaw16 == InitRaw16 /\ [][NextRaw16]_vars

(* ------------- the const evaluation of the prime tables --------------- *)

\* the helpers! instantiations: both features for the 8-bit width and for
\* the 16-bit width, which has the table of the wider ones
Instantiations ==
    {[bits |-> BITS, primes256 |-> FALSE, k |-> NUM_PRIMES],
     [bits |-> BITS16, primes256 |-> FALSE, k |-> NUM_PRIMES],
     [bits |-> BITS, primes256 |-> TRUE, k |-> NUM_PRIMES_8_256],
     [bits |-> BITS16, primes256 |-> TRUE, k |-> NUM_PRIMES_256]}

\* the indices get_prime is asked for: the first two, and around the end
\* of every table
ProbeIndices ==
    {0, 1} \cup UNION {{inst.k - 1, inst.k} : inst \in Instantiations}

\* <$ux>::MAX of the width
MaxOf(bits) == 2^bits - 1

\* get_prime with a table that is wrong about its own length
get_prime_of_clamped(arr, i) ==
    IF i < Len(arr) THEN Some(arr[i + 1]) ELSE Some(arr[Len(arr)])

\* get_prime of the instantiation whose table is arr
get_prime_of(arr, i) == IF i < Len(arr) THEN Some(arr[i + 1]) ELSE None

InitSieve ==
    /\ AlgebraIdle
    /\ pc = "start"
    /\ seq = <<>>
    /\ bag = None
    /\ it = iter_new(ONE)
    /\ front = <<>>
    /\ back = <<>>
    /\ front_done = FALSE
    /\ back_done = FALSE
    /\ git = iter_new(ONE)
    /\ groups = <<>>
    /\ groups_done = FALSE
    /\ arg = 0
    /\ res = None
    /\ raw = ONE
    /\ hint = NoHint
    /\ \E inst \in Instantiations :
           sv = [pc |-> "sieve", bits |-> inst.bits,
                 primes256 |-> inst.primes256, k |-> inst.k,
                 arr |-> <<>>,
                 current |-> IF ONE + 1 > MaxOf(inst.bits)
                             THEN MaxOf(inst.bits) ELSE ONE + 1,
                 sat |-> FALSE, i |-> 0, got |-> None]

\* current = current.saturating_add(1), sat recording that it saturated
SieveAdvance(s) ==
    [s EXCEPT !.current = IF s.current + 1 > MaxOf(s.bits)
                          THEN MaxOf(s.bits) ELSE s.current + 1,
              !.sat = s.sat \/ s.current + 1 > MaxOf(s.bits)]

\* one turn of the outer while: no prime found so far divides current
SieveStore ==
    /\ sv.pc = "sieve"
    /\ Len(sv.arr) < sv.k
    /\ ~factor_found(sv.arr, sv.current)
    /\ sv' = SieveAdvance([sv EXCEPT !.arr = Append(sv.arr, sv.current)])
    /\ UNCHANGED <<algebra_vars, pc, seq, bag, iter_vars, group_vars,
                   arg, res, raw, hint>>

\* one turn of the outer while: a prime found so far divides current
SievePass ==
    /\ sv.pc = "sieve"
    /\ Len(sv.arr) < sv.k
    /\ factor_found(sv.arr, sv.current)
    /\ sv' = SieveAdvance(sv)
    /\ UNCHANGED <<algebra_vars, pc, seq, bag, iter_vars, group_vars,
                   arg, res, raw, hint>>

\* the outer while ends: the table is full
SieveDone ==
    /\ sv.pc = "sieve"
    /\ Len(sv.arr) >= sv.k
    /\ sv' = [sv EXCEPT !.pc = "done"]
    /\ UNCHANGED <<algebra_vars, pc, seq, bag, iter_vars, group_vars,
                   arg, res, raw, hint>>

\* Helpers::get_prime(i)
GetPrime(i) ==
    /\ sv.pc = "done"
    /\ sv' = [sv EXCEPT !.pc = "got", !.i = i, !.got = get_prime_of(sv.arr, i)]
    /\ UNCHANGED <<algebra_vars, pc, seq, bag, iter_vars, group_vars,
                   arg, res, raw, hint>>

NextSieve ==
    \/ SieveStore
    \/ SievePass
    \/ SieveDone
    \/ \E i \in ProbeIndices : GetPrime(i)

\* const evaluation runs the loop until it ends
SpecSieve == InitSieve /\ [][NextSieve]_vars /\ WF_vars(NextSieve)

(* ----------------------- vocabulary of the claims ---------------------- *)

\* number of occurrences of e in the sequence s
Occ(s, e) == Cardinality({i \in 1..Len(s) : s[i] = e})

\* n copies of e
Rep(e, n) == [i \in 1..n |-> e]

RECURSIVE AscendingFrom(_, _)
\* the elements of s with index >= i, in ascending order of index, each as
\* often as it occurs in s
AscendingFrom(s, i) ==
    IF i > NUM_PRIMES THEN <<>>
    ELSE Rep(i, Occ(s, i)) \o AscendingFrom(s, i + 1)

Ascending(s) == AscendingFrom(s, 0)

Reverse(s) == [i \in 1..Len(s) |-> s[Len(s) + 1 - i]]

IsPrefix(s, t) == Len(s) <= Len(t) /\ SubSeq(t, 1, Len(s)) = s

RECURSIVE GroupsFrom(_, _)
\* one <<element, multiplicity>> pair per distinct element of s, ascending
GroupsFrom(s, i) ==
    IF i > NUM_PRIMES THEN <<>>
    ELSE (IF Occ(s, i) > 0 THEN <<<<i, Occ(s, i)>>>> ELSE <<>>)
         \o GroupsFrom(s, i + 1)

RECURSIVE Expand(_)
\* every pair of a sequence of groups written out as multiplicity copies
Expand(g) ==
    IF g = <<>> THEN <<>> ELSE Rep(Head(g)[1], Head(g)[2]) \o Expand(Tail(g))

\* every element of s has a table entry
AllIndexed(s) == \A i \in 1..Len(s) : to_prime_index(s[i]) < NUM_PRIMES

\* a value above MAX stands for every value above MAX
Capped(x) == IF x > MAX THEN MAX + 1 ELSE x

RECURSIVE TrueProduct(_)
\* the product over the elements of s of the prime of their index (s has only
\* elements with a table entry), or MAX + 1 when that product is above MAX
TrueProduct(s) ==
    IF s = <<>> THEN 1
    ELSE Capped(PRIMES[to_prime_index(Head(s)) + 1] * TrueProduct(Tail(s)))

\* the rearrangements of s
Rearrangements(s) ==
    {[i \in 1..Len(s) |-> s[f[i]]] : f \in Permutations(1..Len(s))}

RECURSIVE Mult(_, _)
\* how many times p divides v
Mult(v, p) == IF v % p = 0 THEN 1 + Mult(v \div p, p) ELSE 0

\* how many times the element of index i is in the bag of value v
CountOf(v, i) == Mult(v, PRIMES[i + 1])

\* the indices that have a table entry
Indices == 0..(NUM_PRIMES - 1)

Min(x, y) == IF x < y THEN x ELSE y

Max(x, y) == IF x < y THEN y ELSE x

\* the least common multiple of x and y as an unbounded integer
TrueLcm(x, y) ==
    LET common == {d \in 1..Min(x, y) : x % d = 0 /\ y % d = 0}
        g == CHOOSE d \in common : \A e \in common : e <= d
    IN  (x * y) \div g

(* -------------------------------- claims ------------------------------- *)

\* C1: try_from_iter(seq) is Some exactly when every element's index is below
\* NUM_PRIMES and the product of the elements' primes is at most MAX; the
\* bag then holds exactly that product, and every rearrangement of seq has
\* the same outcome.
C1_TryFromIterProduct ==
    pc # "start" =>
        LET fits == AllIndexed(seq) /\ TrueProduct(seq) <= MAX
        IN  /\ bag.some = fits
            /\ fits => bag.val = TrueProduct(seq)
            /\ pc = "built" =>
                   \A t \in Rearrangements(seq) : try_from_iter(t) = bag

\* C1 witness: [1, 1, 2] has been built and holds 45
C1_Witness == pc = "built" /\ seq = <<1, 1, 2>> /\ bag = Some(45)

\* C2: on a built bag the calls of next yield the elements of seq in
\* ascending index order, each as often as it occurs, and then None; nth(n)
\* is the n-th element of that order, None from len(seq) on.
C2_ForwardIsAscending ==
    /\ (pc = "iter" /\ back = <<>>) =>
           /\ IsPrefix(front, Ascending(seq))
           /\ front_done => front = Ascending(seq)
           /\ front = Ascending(seq) => ~iter_next(it).item.some
    /\ pc = "nth" =>
           res = (IF arg < Len(seq) THEN Some(Ascending(seq)[arg + 1]) ELSE None)

\* C2 witness: a bag with a repeated element has been iterated to the end
C2_Witness ==
    /\ pc = "iter" /\ back = <<>> /\ front_done
    /\ seq = <<2, 0, 2, 0>> /\ front = <<0, 0, 2, 2>>

\* C3: collecting next_back until None gives the reverse of the forward
\* sequence; last() is the final element of the forward sequence and None
\* only for the empty bag.
C3_BackwardIsReverse ==
    /\ (pc = "iter" /\ front = <<>>) =>
           /\ IsPrefix(back, Reverse(Ascending(seq)))
           /\ back_done => back = Reverse(Ascending(seq))
           /\ back = Reverse(Ascending(seq)) => ~next_back(it).item.some
    /\ pc = "last" =>
           /\ res = (IF seq = <<>> THEN None
                     ELSE Some(Ascending(seq)[Len(seq)]))
           /\ ~res.some <=> bag.val = EMPTY

\* C3 witness: a bag holding index-0 elements and others has been iterated
\* backwards to the end, the index-0 elements last
C3_Witness ==
    /\ pc = "iter" /\ front = <<>> /\ back_done
    /\ seq = <<0, 2, 0, 1>> /\ back = <<2, 1, 0, 0>>

\* C4: the group iterator yields one (element, multiplicity) pair per
\* distinct element of the bag, ascending, the multiplicity being
\* count_instances of the element; written out, the pairs give the forward
\* sequence.
C4_GroupsAreRuns ==
    pc = "groups" =>
        /\ IsPrefix(groups, GroupsFrom(seq, 0))
        /\ groups_done => /\ groups = GroupsFrom(seq, 0)
                          /\ Expand(groups) = Ascending(seq)
        /\ groups = GroupsFrom(seq, 0) => ~group_next(git).item.some
        /\ \A i \in 1..Len(groups) :
               groups[i][2] = count_instances(bag.val, groups[i][1])

\* C4 witness: a bag with an absent index between two present ones, one of
\* them repeated, has been grouped to the end
C4_Witness ==
    /\ pc = "groups" /\ groups_done
    /\ seq = <<3, 1, 3>> /\ groups = <<<<1, 1>>, <<3, 2>>>>

\* C5: try_union(a, b) is Some exactly when the least common multiple of the
\* two values is at most MAX, and the result then holds every element as
\* often as the one of a and b that holds it more often.
C5_UnionIsLcm ==
    op = "try_union" =>
        /\ out.some = (TrueLcm(a, b) <= MAX)
        /\ out.some =>
               \A i \in Indices :
                   CountOf(out.val, i) = Max(CountOf(a, i), CountOf(b, i))

\* C5 witness: the product of the two values does not fit the width, their
\* least common multiple does, and the union is returned
C5_Witness ==
    /\ op = "try_union" /\ out.some
    /\ a * b > MAX /\ out.val # a /\ out.val # b

\* C6: try_sum(a, b) is Some exactly when the product of the two values is at
\* most MAX, the result then holds every element as often as a and b
\* together; otherwise it is None.
C6_SumIsProduct ==
    op = "try_sum" =>
        /\ out.some = (a * b <= MAX)
        /\ out.some =>
               /\ out.val = a * b
               /\ \A i \in Indices :
                      CountOf(out.val, i) = CountOf(a, i) + CountOf(b, i)
        /\ a * b > MAX => out = None

\* C6 witness: two non-empty bags sharing an element have been summed
C6_Witness ==
    /\ op = "try_sum" /\ out.some
    /\ a # EMPTY /\ b # EMPTY /\ CountOf(a, 1) > 0 /\ CountOf(b, 1) > 0

\* C7: intersection(a, b) always returns a bag, which holds every element as
\* often as the one of a and b that holds it less often, and of which both
\* a and b are supersets.
C7_IntersectionIsMin ==
    op = "intersection" =>
        /\ out.some
        /\ out.val >= 1 /\ out.val <= MAX
        /\ \A i \in Indices :
               CountOf(out.val, i) = Min(CountOf(a, i), CountOf(b, i))
        /\ is_subset(out.val, a)
        /\ is_subset(out.val, b)

\* C7 witness: two bags, neither a subset of the other, with a non-empty
\* intersection
C7_Witness ==
    /\ op = "intersection"
    /\ out.val # EMPTY /\ out.val # a /\ out.val # b

\* C8: try_difference(a, b) is Some exactly when a.is_superset(b); the result
\* then holds every element as often as a less as often as b, and summed
\* with b gives a back; it is None when b holds some element more often
\* than a.
C8_DifferenceIsQuotient ==
    op = "try_difference" =>
        /\ out.some = is_superset(a, b)
        /\ out.some =>
               /\ \A i \in Indices :
                      CountOf(out.val, i) = CountOf(a, i) - CountOf(b, i)
               /\ try_sum(out.val, b) = Some(a)
        /\ (\E i \in Indices : CountOf(b, i) > CountOf(a, i)) => out = None

\* C8 witness: a non-empty proper sub-bag has been taken away
C8_Witness ==
    /\ op = "try_difference" /\ out.some
    /\ b # EMPTY /\ out.val # EMPTY

\* C9: a.is_superset(b) is true exactly when a holds every element at least
\* as often as b does (so when a = b and when b is empty), and
\* a.is_subset(b) equals b.is_superset(a).
C9_SupersetIsCountwise ==
    /\ op = "is_superset" =>
           /\ flag = (\A i \in Indices : CountOf(b, i) <= CountOf(a, i))
           /\ (a = b \/ b = EMPTY) => flag
    /\ op = "is_subset" =>
           /\ flag = is_superset(b, a)
           /\ flag = (\A i \in Indices : CountOf(a, i) <= CountOf(b, i))

\* C9 witness: a holds every element of b, one of them less often than b
C9_Witness ==
    /\ op = "is_superset" /\ ~flag
    /\ \A i \in Indices : CountOf(b, i) > 0 => CountOf(a, i) > 0

\* C10: try_insert(e) on the bag of value a is Some exactly when e's index is
\* below NUM_PRIMES and a times the prime of that index is at most MAX; the
\* result holds e once more and every other element as often as before;
\* otherwise it is None.
C10_InsertIsMultiply ==
    op = "try_insert" =>
        LET u == to_prime_index(elem)
            fits == u < NUM_PRIMES /\ a * PRIMES[u + 1] <= MAX
        IN  /\ out.some = fits
            /\ fits =>
                   \A i \in Indices :
                       CountOf(out.val, i) =
                           CountOf(a, i) + (IF i = u THEN 1 ELSE 0)
            /\ ~fits => out = None

\* C10 witness: a bag that has room for one more element of index 0 has
\* refused an element of a larger prime
C10_Witness ==
    /\ op = "try_insert" /\ out = None
    /\ a # EMPTY /\ to_prime_index(elem) < NUM_PRIMES
    /\ try_insert(a, 0).some

RECURSIVE InsertTimes(_, _, _)
\* the outcome of n successive try_insert(e) calls, the first one on bag o
InsertTimes(o, e, n) ==
    IF n = 0 THEN o
    ELSE LET r == InsertTimes(o, e, n - 1)
         IN  IF r.some THEN try_insert(r.val, e) ELSE None

\* C11 as stated: try_insert_many(e, n) has the outcome of n successive
\* try_insert(e) calls for every bag, element and count, the count 0 and
\* the elements without a table entry included
C11_InsertManyIsRepeatedInsert ==
    op = "try_insert_many" => out = InsertTimes(Some(a), elem, num)

\* C11: try_insert_many(e, n) is None for an element whose index has no
\* table entry, whatever the count (also for the count 0, where zero
\* try_insert calls would leave the bag as it is); for every other element
\* and every count it has the outcome of n successive try_insert(e) calls
C11_InsertManyIsRepeatedInsertWithEntry ==
    op = "try_insert_many" =>
        IF to_prime_index(elem) >= NUM_PRIMES
        THEN out = None
        ELSE out = InsertTimes(Some(a), elem, num)

\* a nonempty bag took two or more copies of an element at once
C11_Witness ==
    /\ op = "try_insert_many"
    /\ a # EMPTY
    /\ num = 2
    /\ out.some
    /\ out.val = a * PRIMES[elem + 1] * PRIMES[elem + 1]

\* C12: try_remove(e) is Some exactly when contains(e) holds, that is when
\* the index of e has a table entry and the bag holds e; the bag returned
\* has one e fewer and every other count unchanged; None otherwise
C12_RemoveTakesOneOut ==
    op = "try_remove" =>
        /\ out.some = contains(a, elem)
        /\ out.some = (elem \in Indices /\ CountOf(a, elem) >= 1)
        /\ out.some =>
               \A i \in Indices :
                   CountOf(out.val, i)
                       = CountOf(a, i) - (IF i = elem THEN 1 ELSE 0)
        /\ ~out.some => out = None

\* one of two copies was taken out of a bag holding another element too
C12_Witness ==
    /\ op = "try_remove"
    /\ out.some
    /\ CountOf(a, elem) = 2
    /\ CountOf(out.val, elem) = 1
    /\ \E i \in Indices : i # elem /\ CountOf(out.val, i) >= 1

\* C13: whenever try_insert(e) succeeds on a bag,
\* bag.try_insert(e).unwrap().try_remove(e) is Some of that bag
C13_InsertThenRemoveIsIdentity ==
    op = "insert_remove" => out = Some(a)

\* the bag already held the element that was inserted and removed again
C13_Witness ==
    /\ op = "insert_remove"
    /\ contains(a, elem)
    /\ \E i \in Indices : i # elem /\ CountOf(a, i) >= 1
    /\ out = Some(a)

RECURSIVE InsertEach(_, _)
\* try_insert folded over the sequence s from the bag o, None once one fails
InsertEach(o, s) ==
    IF s = <<>> THEN o
    ELSE IF ~o.some THEN None
    ELSE InsertEach(try_insert(o.val, Head(s)), Tail(s))

\* C14: try_extend(seq) is None when an element at any position has an
\* index without a table entry or makes the product overflow, and is
\* otherwise the bag that folding try_insert over seq from the receiver
\* gives: the receiver's counts plus the occurrences in seq, never a part
C14_ExtendAllOrNothing ==
    op = "try_extend" =>
        /\ out = InsertEach(Some(a), items)
        /\ (\E k \in 1..Len(items) : items[k] \notin Indices) => out = None
        /\ out.some =>
               \A i \in Indices :
                   CountOf(out.val, i) = CountOf(a, i) + Occ(items, i)
        /\ ~out.some => out = None

\* the first element of the sequence fits a nonempty bag, the second does not
C14_Witness ==
    /\ op = "try_extend"
    /\ a # EMPTY
    /\ Len(items) = 2
    /\ try_insert(a, items[1]).some
    /\ items[2] \in Indices
    /\ out = None

\* C15: count_instances(e) on the bag built from s is the number of
\* occurrences of e in s; for index 0 the trailing-zero count is what
\* repeated exact division by 2 gives; an element without a table entry
\* has count 0
C15_CountIsOccurrences ==
    pc = "count" =>
        /\ res = Some(Occ(seq, arg))
        /\ to_prime_index(arg) = 0 => res.val = count_div(bag.val, 2)
        /\ to_prime_index(arg) >= NUM_PRIMES => res.val = 0

\* index 0 counted three times in a bag that holds another element too
C15_Witness ==
    /\ pc = "count"
    /\ arg = 0
    /\ res = Some(3)
    /\ Len(seq) = 4

\* C16: for an element e with a table entry and every n >= 0,
\* contains_at_least(e, n) is true exactly when count_instances(e) >= n
\* (false when prime^n does not fit the width), and contains(e) exactly
\* when count_instances(e) >= 1; without a table entry both are false
C16_ContainsIsCountAtLeast ==
    /\ op = "contains_at_least" =>
           /\ elem \in Indices => flag = (count_instances(a, elem) >= num)
           /\ elem \in Indices /\ ~checked_pow(PRIMES[elem + 1], num).some
                  => flag = FALSE
           /\ elem \notin Indices => flag = FALSE
    /\ op = "contains" =>
           /\ elem \in Indices => flag = (count_instances(a, elem) >= 1)
           /\ elem \notin Indices => flag = FALSE

\* two copies asked for and found among three
C16_Witness ==
    /\ op = "contains_at_least"
    /\ num = 2
    /\ count_instances(a, elem) = 3
    /\ flag = TRUE

\* C17: from_inner and into_inner are inverse to each other, bit for bit:
\* from_inner(r).into_inner() is r for every nonzero raw value r, and
\* from_inner(b.into_inner()) is b, with the elements b has
C17_InnerRoundTrip ==
    /\ pc \in {"inner", "rewrapped"} => res = Some(raw)
    /\ pc = "inner" => from_inner(res.val) = bag.val
    /\ pc = "rewrapped" =>
           /\ into_inner(bag.val) = raw
           /\ front = collect(iter_new(raw))

\* a raw value with the top bit set went through and came back with its
\* three elements
C17_Witness ==
    /\ pc = "rewrapped"
    /\ raw > 2^(BITS - 1)
    /\ bag = Some(raw)
    /\ Len(front) = 3

\* C18: the conversion to the next wider bag keeps the integer value, sends
\* different bags to different bags, gives the bag that try_from_iter
\* builds in the wider width from the same elements, and that bag decodes
\* to the same elements, the narrow prime table being a prefix of the wide
C18_WideningKeepsTheBag ==
    pc = "widened" =>
        /\ res = Some(bag.val)
        /\ \A other \in RawValues :
               from_bag8_to_bag16(other) = res.val => other = bag.val
        /\ res = try_from_iter16(seq)
        /\ collect16(iter_new(res.val)) = collect(iter_new(bag.val))
        /\ Len(PRIMES) <= Len(PRIMES16)
        /\ \A i \in 1..Len(PRIMES) : PRIMES16[i] = PRIMES[i]

\* a bag of three elements with the top bit of its value set was widened
C18_Witness ==
    /\ pc = "widened"
    /\ Len(seq) = 3
    /\ bag.val >= 2^(BITS - 1)
    /\ res = Some(bag.val)

\* C19: try_sum, try_union and intersection are commutative, the failure
\* outcome included: a op b and b op a are both None or both Some of the
\* same bag
C19_Commutative ==
    /\ op = "try_sum" => out = try_sum(b, a)
    /\ op = "try_union" => out = try_union(b, a)
    /\ op = "intersection" => out = Some(intersection(b, a))

\* a union of two bags of which neither holds the other
C19_Witness ==
    /\ op = "try_union"
    /\ ~is_superset(a, b)
    /\ ~is_superset(b, a)
    /\ intersection(a, b) # EMPTY
    /\ out.some

\* C20: no operation changes the bag it is called on or the bag it is
\* handed: over every call of an insertion, removal, extension, sum, union,
\* difference, intersection, query or iteration, receiver and argument
\* keep their values and the result is a new value
C20_OperationsLeaveBagsAlone ==
    [][(op = "none" /\ op' # "none") => (a' = a /\ b' = b)]_vars

\* try_extend returned a larger bag and the receiver is what it was
C20_Witness ==
    /\ op = "try_extend"
    /\ a # EMPTY
    /\ b # EMPTY
    /\ items # <<>>
    /\ out.some
    /\ out.val # a
    /\ count_instances(a, items[1]) = 0

\* the number of elements the iterator of the built bag has still to yield
Remaining == Len(seq) - Len(front) - Len(back)

\* only elements of index 0 are left, or none at all
OnlyZerosLeft == \A k \in 1..Len(collect(it)) : collect(it)[k] = 0

\* C23: on a bag built from elements, after any mixture of next and
\* next_back calls, size_hint returns (lo, Some(hi)) with
\* lo <= elements still to come <= hi, hi never absent; lo = hi = the
\* number of index-0 elements left when nothing else is left; and the
\* iterator is where it was
C23_SizeHintBrackets ==
    pc = "hinted" =>
        /\ hint.hi.some
        /\ hint.lo <= Remaining
        /\ Remaining <= hint.hi.val
        /\ OnlyZerosLeft => (hint.lo = Remaining /\ hint.hi.val = Remaining)
        /\ front \o collect(it) \o Reverse(back) = Ascending(seq)

\* after calls from both ends two elements are left and the lower bound
\* is below that
C23_Witness ==
    /\ pc = "hinted"
    /\ front # <<>>
    /\ back # <<>>
    /\ Remaining = 2
    /\ hint = [lo |-> 1, hi |-> Some(2)]

\* C24: on a bag built from elements, after any number of next calls,
\* count() is the number of elements that further next calls would yield
\* before None, from index 0 (trailing-zero shortcut) as from any later
\* index
C24_CountIsRemaining ==
    pc = "counted" =>
        /\ res = Some(Remaining)
        /\ res = Some(Len(collect(it)))

\* counted past index 0: two elements after one next call
C24_Witness ==
    /\ pc = "counted"
    /\ it.prime_index > 0
    /\ Len(front) = 1
    /\ back = <<>>
    /\ res = Some(2)

\* C28: on a bag built from elements, whatever the interleaving of next
\* and next_back, every occurrence is yielded once: what next returned,
\* then what is still to come, then the reverse of what next_back
\* returned, is the bag's ascending sequence; once a call has returned
\* None everything has been yielded and both calls return None
C28_InterleavingYieldsOnce ==
    pc = "iter" =>
        /\ front \o collect(it) \o Reverse(back) = Ascending(seq)
        /\ (front_done \/ back_done) =>
               /\ front \o Reverse(back) = Ascending(seq)
               /\ ~iter_next(it).item.some
               /\ ~next_back(it).item.some

\* four elements taken two from each end, both ends then returning None
C28_Witness ==
    /\ pc = "iter"
    /\ front_done /\ back_done
    /\ Len(front) = 2 /\ Len(back) = 2
    /\ front[1] = 0 /\ back[1] # 0

RECURSIVE TablePart(_, _)
\* the product of the powers of the table primes from index i on that
\* divide v
TablePart(v, i) ==
    IF i >= NUM_PRIMES THEN 1
    ELSE PRIMES[i + 1]^CountOf(v, i) * TablePart(v, i + 1)

\* v is a product of powers of table primes
IsTableProduct(v) == v >= 1 /\ TablePart(v, 0) = v

\* C21 as stated: every bag obtainable through the public interface,
\* from_inner included, holds an integer >= 1 that is a product of powers
\* of table primes, the empty bag holding exactly 1
C21_BagsAreTableProducts ==
    bag.some =>
        /\ bag.val >= 1
        /\ IsTableProduct(bag.val)
        /\ is_empty(bag.val) <=> bag.val = 1

\* C27 as stated: for every nonzero raw value r, size_hint on
\* from_inner(r).into_iter() has a lower bound that is at most the number
\* of elements next yields and an upper bound, when present, that is at
\* least that number
C27_RawSizeHintBrackets ==
    (pc = "hinted" /\ front = <<>> /\ back = <<>> /\ ~front_done /\ ~back_done) =>
        /\ hint.lo <= Len(collect(it))
        /\ hint.hi.some => Len(collect(it)) <= hint.hi.val

\* over a call of next or next_back the iterator only moves on
IterCallShrinks ==
    (pc = "iter" /\ pc' = "iter") =>
        /\ it'.prime_index >= it.prime_index
        /\ it'.chunk <= it.chunk
        /\ (front' # front \/ back' # back) => it'.chunk < it.chunk

\* over a call of the group iterator's next the iterator only moves on
GroupCallShrinks ==
    (pc = "groups" /\ pc' = "groups") =>
        /\ git'.prime_index >= git.prime_index
        /\ git'.chunk <= git.chunk
        /\ groups' # groups => git'.chunk < git.chunk

\* C30: for every nonzero raw value, valid bag or not, the calls of next,
\* next_back and the group iterator's next all return; prime_index never
\* decreases and stays within 0..K, the chunk stays >= 1, never grows and
\* shrinks with every yielded item, fewer than BITS items are yielded, and
\* a caller that keeps calling gets None in the end
C30_IterationEnds ==
    /\ [](/\ it.chunk >= 1 /\ it.prime_index \in 0..NUM_PRIMES
          /\ git.chunk >= 1 /\ git.prime_index \in 0..NUM_PRIMES
          /\ Len(front) + Len(back) < BITS
          /\ Len(groups) < BITS)
    /\ [][IterCallShrinks /\ GroupCallShrinks]_vars
    /\ (pc = "iter") ~> (front_done /\ back_done)
    /\ (pc = "groups") ~> groups_done

\* the iterator over a raw value that is no product of table primes has
\* gone through the whole table and both ends have returned None
C30_Witness ==
    /\ pc = "iter"
    /\ ~IsTableProduct(raw)
    /\ it.prime_index = NUM_PRIMES
    /\ it.chunk = raw
    /\ front_done /\ back_done

RECURSIVE TablePart16(_, _)
\* TablePart for the table of the 16-bit width
TablePart16(v, i) ==
    IF i >= Len(PRIMES16) THEN 1
    ELSE PRIMES16[i + 1]^Mult(v, PRIMES16[i + 1]) * TablePart16(v, i + 1)

\* C29: products of table primes stay products of table primes: with
\* operands that are, every Some result of try_insert, try_insert_many,
\* try_remove, try_extend, try_sum, try_union, try_difference, and the
\* result of intersection and of widening, is >= 1, fits the width and is
\* a product of table primes; so a bag reached from the empty bag without
\* from_inner decodes completely, the elements collected multiplying back
\* to its value
C29_TableProductsClosed ==
    /\ IsTableProduct(a) /\ a <= MAX
    /\ IsTableProduct(b) /\ b <= MAX
    /\ (out.some /\ op # "into_wide") =>
           (IsTableProduct(out.val) /\ out.val <= MAX)
    /\ op = "into_wide" =>
           (/\ out.val >= 1
            /\ out.val <= MAX16
            /\ TablePart16(out.val, 0) = out.val)
    /\ op = "collect" =>
           (/\ TrueProduct(listed) = a
            /\ \A i \in Indices : Occ(listed, i) = CountOf(a, i))

\* the sum of two nonempty bags is again a product of table primes
C29_Witness ==
    /\ op = "try_sum"
    /\ a # EMPTY
    /\ b # EMPTY
    /\ out.some
    /\ out.val = a * b
    /\ IsTableProduct(out.val)

\* the table of the evaluated instantiation is full
TableReady == sv.pc \in {"done", "got"}

\* the prime p of the table goes into an empty bag of the width
FitsEmptyBag(p) == ONE * p <= MaxOf(sv.bits)

IsPrime(n) == n >= 2 /\ \A d \in 2..(n - 1) : n % d # 0

\* C25: for every width and K the sieve ends with the K smallest primes in
\* strictly ascending order (2, 3, ..., 131 at index 31; under primes256
\* 251 at index 53 for 8 bits and 1619 at index 255 otherwise), every
\* entry fitting the width, the candidate never saturating, and
\* get_prime(i) is the entry at i below K and None from K on
C25_SieveGivesSmallestPrimes ==
    /\ [](~sv.sat /\ sv.current <= MaxOf(sv.bits))
    /\ [](sv.pc = "done" =>
            /\ Len(sv.arr) = sv.k
            /\ \A j \in 1..(sv.k - 1) : sv.arr[j] < sv.arr[j + 1]
            /\ \A n \in 2..sv.arr[sv.k] :
                   IsPrime(n) <=> \E j \in 1..sv.k : sv.arr[j] = n
            /\ \A j \in 1..sv.k : sv.arr[j] <= MaxOf(sv.bits)
            /\ sv.arr[1] = 2 /\ sv.arr[2] = 3 /\ sv.arr[32] = 131
            /\ sv.k = NUM_PRIMES_8_256 => sv.arr[54] = 251
            /\ sv.k = NUM_PRIMES_256 => sv.arr[256] = 1619
            /\ (sv.k = NUM_PRIMES /\ sv.bits = BITS) => sv.arr = PRIMES
            /\ (sv.k = NUM_PRIMES /\ sv.bits = BITS16) => sv.arr = PRIMES16)
    /\ [](sv.pc = "got" =>
            sv.got = IF sv.i < sv.k THEN Some(sv.arr[sv.i + 1]) ELSE None)
    /\ <>TableReady

\* the 8-bit table under primes256 is full, its last prime 251 four below
\* the largest value of the width
C25_Witness ==
    /\ sv.pc = "done"
    /\ sv.bits = BITS
    /\ sv.k = NUM_PRIMES_8_256
    /\ sv.arr[sv.k] = MaxOf(BITS) - 4
    /\ sv.current = MaxOf(BITS) - 3

\* C26: for every nonzero raw value r, values with prime factors outside
\* the table included, the backward iterator over from_inner(r) yields the
\* same multiset of elements as the forward iterator, in reverse order
C26_BackwardIsForwardReversed ==
    (pc = "iter" /\ front_done /\ back_done) => back = Reverse(front)

=============================================================================
